---- MODULE Spec2Model ----
(***************************************************************************)
(* note-file-manager (src/src/main.rs): a command-line tool that keeps a   *)
(* list of notes in one JSON file.                                         *)
(*                                                                         *)
(* Text is modelled as sequences of one-character strings, so that the     *)
(* file is a byte sequence with offsets, serialisation and parsing are     *)
(* real conversions, and a short write over a long one leaves a tail.      *)
(*                                                                         *)
(* Two specifications:                                                     *)
(*   Spec      one invocation at a time; each action is a whole run of     *)
(*             main() for one shape of the argument list.                  *)
(*   ConcSpec  the invocations of Procs run concurrently, one system call  *)
(*             per step, each with its own file handle and offset.         *)
(***************************************************************************)
EXTENDS Integers, Sequences, FiniteSets, TLC

(***************************************************************************)
(* Bounds                                                                  *)
(***************************************************************************)
\* add is not taken once the collection read holds MaxNotes notes
MaxNotes == 3

(***************************************************************************)
(* Text constants                                                          *)
(***************************************************************************)
QUOTE == "\""
BACKSLASH == "\\"

\* hole left by a write beyond the end of the file
NUL == "NUL"

LIST == <<"l", "i", "s", "t">>
GET == <<"g", "e", "t">>
ADD == <<"a", "d", "d">>
PATCH == <<"p", "a", "t", "c", "h">>
DELETE == <<"d", "e", "l", "e", "t", "e">>

PROG == <<"n", "f", "m">>
PATH == <<"n", ".", "j", "s", "o", "n">>

KeyContent == <<"c", "o", "n", "t", "e", "n", "t">>
KeyId == <<"i", "d">>

EmptyArray == <<"[", "]">>

NoNotesFound ==
    <<"N", "o", " ", "n", "o", "t", "e", "s", " ", "f", "o", "u", "n", "d">>

Arrow == <<" ", "-", ">", " ">>

CHARSET ==
    <<"0", "1", "2", "3", "4", "5", "6", "7", "8", "9",
      "a", "b", "c", "d", "e", "f", "g", "h", "i", "j", "k", "l", "m",
      "n", "o", "p", "q", "r", "s", "t", "u", "v", "w", "x", "y", "z",
      "A", "B", "C", "D", "E", "F", "G", "H", "I", "J", "K", "L", "M",
      "N", "O", "P", "Q", "R", "S", "T", "U", "V", "W", "X", "Y", "Z">>

IdLen == 8

ByteRange == 256

(***************************************************************************)
(* Note, format_note, generate_id                                          *)
(***************************************************************************)
Note(content, id) == [content |-> content, id |-> id]

format_note(note) == note.id \o Arrow \o note.content

\* bytes: the IdLen random bytes drawn from the thread's generator
generate_id(bytes) ==
    [i \in 1..IdLen |-> CHARSET[(bytes[i] % (Len(CHARSET) % ByteRange)) + 1]]

(***************************************************************************)
(* serde_json::to_string on Vec<Note>: compact, fields in declaration      *)
(* order, quote and backslash escaped.                                     *)
(***************************************************************************)
EscapeChar(c) ==
    IF c = QUOTE \/ c = BACKSLASH THEN <<BACKSLASH, c>> ELSE <<c>>

RECURSIVE EscapeString(_)
EscapeString(s) ==
    IF s = <<>> THEN <<>> ELSE EscapeChar(Head(s)) \o EscapeString(Tail(s))

JsonString(s) == <<QUOTE>> \o EscapeString(s) \o <<QUOTE>>

JsonNote(note) ==
    <<"{">> \o JsonString(KeyContent) \o <<":">> \o JsonString(note.content)
            \o <<",">> \o JsonString(KeyId) \o <<":">> \o JsonString(note.id)
            \o <<"}">>

RECURSIVE JsonNotes(_)
JsonNotes(notes) ==
    IF notes = <<>> THEN <<>>
    ELSE IF Len(notes) = 1 THEN JsonNote(notes[1])
    ELSE JsonNote(Head(notes)) \o <<",">> \o JsonNotes(Tail(notes))

to_string(notes) == <<"[">> \o JsonNotes(notes) \o <<"]">>

(***************************************************************************)
(* serde_json::from_reader into Vec<Note>.  The text handled here has no   *)
(* whitespace between tokens, no escapes other than \" and \\, and no      *)
(* fields other than content and id; both field orders are accepted, a     *)
(* repeated or missing field and anything after the closing bracket are    *)
(* errors.  A result is [ok, val, next]: next is the index after the       *)
(* value.                                                                  *)
(***************************************************************************)
Fail == [ok |-> FALSE, val |-> <<>>, next |-> 0]

Good(val, next) == [ok |-> TRUE, val |-> val, next |-> next]

At(s, i, c) == i <= Len(s) /\ s[i] = c

RECURSIVE ScanString(_, _, _)
ScanString(s, i, acc) ==
    IF i > Len(s) THEN Fail
    ELSE IF s[i] = QUOTE THEN Good(acc, i + 1)
    ELSE IF s[i] = BACKSLASH
         THEN IF i + 1 <= Len(s) /\ s[i + 1] \in {QUOTE, BACKSLASH}
              THEN ScanString(s, i + 2, Append(acc, s[i + 1]))
              ELSE Fail
    ELSE IF s[i] = NUL THEN Fail
    ELSE ScanString(s, i + 1, Append(acc, s[i]))

ParseString(s, i) == IF At(s, i, QUOTE) THEN ScanString(s, i + 1, <<>>) ELSE Fail

FieldOf(key, v) ==
    IF ~v.ok THEN Fail ELSE Good([key |-> key, value |-> v.val], v.next)

FieldValue(s, k) ==
    IF ~k.ok \/ ~At(s, k.next, ":") THEN Fail
    ELSE FieldOf(k.val, ParseString(s, k.next + 1))

\* "key":"value" starting at i
ParseField(s, i) == FieldValue(s, ParseString(s, i))

NoteOf(s, f1, f2) ==
    IF ~f2.ok \/ ~At(s, f2.next, "}") THEN Fail
    ELSE IF f1.key = KeyContent /\ f2.val.key = KeyId
         THEN Good(Note(f1.value, f2.val.value), f2.next + 1)
    ELSE IF f1.key = KeyId /\ f2.val.key = KeyContent
         THEN Good(Note(f2.val.value, f1.value), f2.next + 1)
    ELSE Fail

NoteSecond(s, f1) ==
    IF ~f1.ok \/ ~At(s, f1.next, ",") THEN Fail
    ELSE NoteOf(s, f1.val, ParseField(s, f1.next + 1))

\* {"key":"value","key":"value"} starting at i
ParseNote(s, i) ==
    IF ~At(s, i, "{") THEN Fail ELSE NoteSecond(s, ParseField(s, i + 1))

RECURSIVE ParseRest(_, _, _)
RestAfter(s, acc, n) ==
    IF ~n.ok THEN Fail ELSE ParseRest(s, n.next, Append(acc, n.val))

\* the elements after the first: i is at "," or "]"
ParseRest(s, i, acc) ==
    IF At(s, i, "]") THEN Good(acc, i + 1)
    ELSE IF ~At(s, i, ",") THEN Fail
    ELSE RestAfter(s, acc, ParseNote(s, i + 1))

ParseArray(s, i) ==
    IF ~At(s, i, "[") THEN Fail
    ELSE IF At(s, i + 1, "]") THEN Good(<<>>, i + 2)
    ELSE RestAfter(s, <<>>, ParseNote(s, i + 1))

WholeOf(s, r) == IF r.ok /\ r.next = Len(s) + 1 THEN r ELSE Fail

\* the whole of s is one array of notes
from_slice(s) == WholeOf(s, ParseArray(s, 1))

(***************************************************************************)
(* The file behind a handle: the bytes are shared, the offset is the       *)
(* handle's.                                                               *)
(***************************************************************************)
\* OpenOptions create+read+write: an absent file comes to exist, empty
open_bytes(ex, by) == IF ex THEN by ELSE <<>>

seek_noop(pos, target) == pos

\* file.seek(SeekFrom::Start(target))
seek(pos, target) == target

\* file.set_len(n)
set_len(by, n) ==
    [i \in 1..n |-> IF i <= Len(by) THEN by[i] ELSE NUL]

\* file.write_all(data) at offset pos (one write): the new bytes
write_all(by, pos, data) ==
    LET end == pos + Len(data)
        size == IF end > Len(by) THEN end ELSE Len(by)
    IN  [i \in 1..size |->
            IF i > pos /\ i <= end THEN data[i - pos]
            ELSE IF i <= Len(by) THEN by[i]
            ELSE NUL]

\* read_notes: the reader consumes from the offset to the end of the file
read_notes(by, pos) ==
    IF pos >= Len(by) THEN from_slice(<<>>)
    ELSE from_slice(SubSeq(by, pos + 1, Len(by)))

(***************************************************************************)
(* Inputs                                                                  *)
(***************************************************************************)
Procs == {1, 2}

Contents == {<<"a">>, <<"b", QUOTE>>}

\* what the generator may return: the first two give the same id
RandomBytes ==
    {[i \in 1..IdLen |-> 0], [i \in 1..IdLen |-> 62], [i \in 1..IdLen |-> 9 + i]}

AbsentId == [i \in 1..IdLen |-> "Z"]

IdArgs == {generate_id(r) : r \in RandomBytes} \cup {AbsentId}

\* a file written by hand: id before content
HandWritten ==
    <<"[", "{">> \o JsonString(KeyId) \o <<":">>
        \o JsonString(generate_id([i \in 1..IdLen |-> 0]))
        \o <<",">> \o JsonString(KeyContent) \o <<":">> \o JsonString(<<"a">>)
        \o <<"}", "]">>

(***************************************************************************)
(* State                                                                   *)
(***************************************************************************)
VARIABLES
    exists,     \* whether the file at PATH exists
    bytes,      \* its content
    args,       \* Spec: the argument list of the last invocation
    stdout,     \* Spec: the lines it printed
    result,     \* Spec: "ok" or its error message ("" before any invocation)
    writes,     \* Spec: how many times it called write_notes
    pc,         \* ConcSpec: where each invocation stands
    pos,        \* ConcSpec: the offset of each invocation's file handle
    pargs,      \* ConcSpec: each invocation's argument list
    notes,      \* ConcSpec: each invocation's Vec<Note>
    seen,       \* ConcSpec: the collection each invocation read
    pout,       \* ConcSpec: the lines each invocation printed
    pres        \* ConcSpec: each invocation's result

fsvars == <<exists, bytes>>
seqvars == <<args, stdout, result, writes>>
concvars == <<pc, pos, pargs, notes, seen, pout, pres>>
vars == <<exists, bytes, args, stdout, result, writes,
          pc, pos, pargs, notes, seen, pout, pres>>

(***************************************************************************)
(* parse_args                                                              *)
(***************************************************************************)
\* args.get(k): a[1] is the program name
HasArg(a, k) == k + 1 <= Len(a)
Arg(a, k) == a[k + 1]

Action(kind, id, content) ==
    [err |-> "", kind |-> kind, id |-> id, content |-> content]

ActionErr(msg) == [err |-> msg, kind |-> "", id |-> <<>>, content |-> <<>>]

\* the match on args.get(2)
parse_action(a) ==
    IF ~HasArg(a, 2) THEN ActionErr("action must be provided")
    ELSE IF Arg(a, 2) = LIST THEN Action("List", <<>>, <<>>)
    ELSE IF Arg(a, 2) = GET
         THEN IF ~HasArg(a, 3) THEN ActionErr("id must be provided")
              ELSE Action("Get", Arg(a, 3), <<>>)
    ELSE IF Arg(a, 2) = ADD
         THEN IF ~HasArg(a, 3) THEN ActionErr("content must be provided")
              ELSE Action("Add", <<>>, Arg(a, 3))
    ELSE IF Arg(a, 2) = PATCH
         THEN IF ~HasArg(a, 3) THEN ActionErr("id must be provided")
              ELSE IF ~HasArg(a, 4) THEN ActionErr("content must be provided")
              ELSE Action("Patch", Arg(a, 3), Arg(a, 4))
    ELSE IF Arg(a, 2) = DELETE
         THEN IF ~HasArg(a, 3) THEN ActionErr("id must be provided")
              ELSE Action("Delete", Arg(a, 3), <<>>)
    ELSE ActionErr("unknown action")

init_file_noseek(by, p) ==
    IF Len(by) <= 0
    THEN [bytes |-> write_all(by, p, EmptyArray), pos |-> p + Len(EmptyArray)]
    ELSE [bytes |-> by, pos |-> p]

\* a zero-length file gets "[]" and the offset goes back to the start
init_file(by, p) ==
    IF Len(by) <= 0
    THEN [bytes |-> write_all(by, p, EmptyArray),
          pos |-> seek(p + Len(EmptyArray), 0)]
    ELSE [bytes |-> by, pos |-> p]

Parsed(f, act) ==
    [err |-> act.err, exists |-> TRUE, bytes |-> f.bytes, pos |-> f.pos,
     action |-> act]

\* [err, exists, bytes, pos, action]
parse_args(a, ex, by) ==
    IF ~HasArg(a, 1)
    THEN [err |-> "file path must be provided", exists |-> ex, bytes |-> by,
          pos |-> 0, action |-> ActionErr("")]
    ELSE Parsed(init_file(open_bytes(ex, by), 0), parse_action(a))

(***************************************************************************)
(* The arms of main's match, from the collection read to the collection    *)
(* to write: [err, notes, out, write].                                     *)
(***************************************************************************)
Arm(err, ns, out, write) ==
    [err |-> err, notes |-> ns, out |-> out, write |-> write]

find_last(ns, id) ==
    IF \E i \in 1..Len(ns) : ns[i].id = id
    THEN CHOOSE i \in 1..Len(ns) :
            /\ ns[i].id = id
            /\ \A j \in (i + 1)..Len(ns) : ns[j].id # id
    ELSE 0

\* notes.iter().find(|note| note.id == id): the index, 0 when there is none
find(ns, id) ==
    IF \E i \in 1..Len(ns) : ns[i].id = id
    THEN CHOOSE i \in 1..Len(ns) :
            /\ ns[i].id = id
            /\ \A j \in 1..(i - 1) : ns[j].id # id
    ELSE 0

RECURSIVE retain_first(_, _)
retain_first(ns, id) ==
    IF ns = <<>> THEN <<>>
    ELSE IF Head(ns).id # id THEN <<Head(ns)>> \o retain_first(Tail(ns), id)
    ELSE Tail(ns)

\* notes.retain(|note| note.id != id)
RECURSIVE retain(_, _)
retain(ns, id) ==
    IF ns = <<>> THEN <<>>
    ELSE IF Head(ns).id # id THEN <<Head(ns)>> \o retain(Tail(ns), id)
    ELSE retain(Tail(ns), id)

push_front(ns, note) == <<note>> \o ns

\* notes.push(note)
push(ns, note) == Append(ns, note)

ListArm_saving(ns) ==
    IF Len(ns) > 0
    THEN Arm("", ns, [i \in 1..Len(ns) |-> format_note(ns[i])], TRUE)
    ELSE Arm("", ns, <<NoNotesFound>>, TRUE)

ListArm(ns) ==
    IF Len(ns) > 0
    THEN Arm("", ns, [i \in 1..Len(ns) |-> format_note(ns[i])], FALSE)
    ELSE Arm("", ns, <<NoNotesFound>>, FALSE)

Found(ns, i) ==
    IF i = 0 THEN Arm("note not found", ns, <<>>, FALSE)
    ELSE Arm("", ns, <<format_note(ns[i])>>, FALSE)

GetArm(ns, id) == Found(ns, find(ns, id))

Added_unsaved(ns, note) == Arm("", push(ns, note), <<format_note(note)>>, FALSE)

Added(ns, note) == Arm("", push(ns, note), <<format_note(note)>>, TRUE)

AddArm(ns, content, rnd) == Added(ns, Note(content, generate_id(rnd)))

Patched(ns, i, content) ==
    IF i = 0 THEN Arm("note not found", ns, <<>>, FALSE)
    ELSE Arm("", [ns EXCEPT ![i].content = content],
             <<format_note(Note(content, ns[i].id))>>, TRUE)

PatchArm(ns, id, content) == Patched(ns, find(ns, id), content)

Retained_unchecked(ns, kept) == Arm("", kept, <<>>, TRUE)

Retained(ns, kept) ==
    IF Len(kept) = Len(ns) THEN Arm("note not found", ns, <<>>, FALSE)
    ELSE Arm("", kept, <<>>, TRUE)

DeleteArm(ns, id) == Retained(ns, retain(ns, id))

arm(act, ns, rnd) ==
    CASE act.kind = "List" -> ListArm(ns)
      [] act.kind = "Get" -> GetArm(ns, act.id)
      [] act.kind = "Add" -> AddArm(ns, act.content, rnd)
      [] act.kind = "Patch" -> PatchArm(ns, act.id, act.content)
      [] act.kind = "Delete" -> DeleteArm(ns, act.id)

\* write_notes in one piece: seek, truncate, write
write_notes(ns, by, p) == write_all(set_len(by, 0), seek(p, 0), to_string(ns))

(***************************************************************************)
(* main, run to completion: [exists, bytes, stdout, result, writes]        *)
(***************************************************************************)
Outcome(ex, by, out, res, w) ==
    [exists |-> ex, bytes |-> by, stdout |-> out, result |-> res, writes |-> w]

\* after the arm: write_notes when the arm asks for it
Finish(pa, r) ==
    IF r.err # "" THEN Outcome(pa.exists, pa.bytes, r.out, r.err, 0)
    ELSE IF r.write
    THEN Outcome(pa.exists, write_notes(r.notes, pa.bytes, Len(pa.bytes)),
                 r.out, "ok", 1)
    ELSE Outcome(pa.exists, pa.bytes, r.out, "ok", 0)

\* after read_notes
Dispatch(pa, rd, rnd) ==
    IF ~rd.ok THEN Outcome(pa.exists, pa.bytes, <<>>, "json error", 0)
    ELSE Finish(pa, arm(pa.action, rd.val, rnd))

\* after parse_args
Run(pa, rnd) ==
    IF pa.err # "" THEN Outcome(pa.exists, pa.bytes, <<>>, pa.err, 0)
    ELSE Dispatch(pa, read_notes(pa.bytes, pa.pos), rnd)

main(a, rnd, ex, by) == Run(parse_args(a, ex, by), rnd)

\* the collection a file holds (an absent or empty file holds none)
Stored(ex, by) == IF ex THEN from_slice(by) ELSE Fail

(***************************************************************************)
(* Spec: one invocation at a time                                          *)
(***************************************************************************)
Idle == [p \in Procs |-> "idle"]
NoPos == [p \in Procs |-> 0]
NoSeq == [p \in Procs |-> <<>>]
NoRes == [p \in Procs |-> ""]

InitialFiles ==
    {[exists |-> FALSE, bytes |-> <<>>],
     [exists |-> TRUE, bytes |-> <<>>],
     [exists |-> TRUE, bytes |-> HandWritten]}

Init ==
    /\ \E f \in InitialFiles : exists = f.exists /\ bytes = f.bytes
    /\ args = <<>>
    /\ stdout = <<>>
    /\ result = ""
    /\ writes = 0
    /\ pc = Idle
    /\ pos = NoPos
    /\ pargs = NoSeq
    /\ notes = NoSeq
    /\ seen = NoSeq
    /\ pout = NoSeq
    /\ pres = NoRes

\* the file and the record of the invocation after main has run
Effect(a, r) ==
    /\ exists' = r.exists
    /\ bytes' = r.bytes
    /\ args' = a
    /\ stdout' = r.stdout
    /\ result' = r.result
    /\ writes' = r.writes

Invoke(a, rnd) == Effect(a, main(a, rnd, exists, bytes))

AnyRandom == CHOOSE r \in RandomBytes : TRUE

\* the bound on the collection's length
Room(s) == s.ok => Len(s.val) < MaxNotes

NoFilePath ==
    /\ Invoke(<<PROG>>, AnyRandom)
    /\ UNCHANGED concvars

NoAction ==
    /\ Invoke(<<PROG, PATH>>, AnyRandom)
    /\ UNCHANGED concvars

UnknownAction ==
    /\ Invoke(<<PROG, PATH, <<"l", "s">>>>, AnyRandom)
    /\ UNCHANGED concvars

MissingArgument ==
    /\ \E a \in {<<PROG, PATH, GET>>, <<PROG, PATH, ADD>>, <<PROG, PATH, PATCH>>,
                 <<PROG, PATH, DELETE>>}
                    \cup {<<PROG, PATH, PATCH, id>> : id \in IdArgs} :
            Invoke(a, AnyRandom)
    /\ UNCHANGED concvars

List ==
    /\ Invoke(<<PROG, PATH, LIST>>, AnyRandom)
    /\ UNCHANGED concvars

Get ==
    /\ \E id \in IdArgs : Invoke(<<PROG, PATH, GET, id>>, AnyRandom)
    /\ UNCHANGED concvars

Add ==
    /\ Room(Stored(exists, bytes))
    /\ \E c \in Contents, rnd \in RandomBytes : Invoke(<<PROG, PATH, ADD, c>>, rnd)
    /\ UNCHANGED concvars

Patch ==
    /\ \E id \in IdArgs, c \in Contents :
            Invoke(<<PROG, PATH, PATCH, id, c>>, AnyRandom)
    /\ UNCHANGED concvars

Delete ==
    /\ \E id \in IdArgs : Invoke(<<PROG, PATH, DELETE, id>>, AnyRandom)
    /\ UNCHANGED concvars

Next ==
    \/ NoFilePath
    \/ NoAction
    \/ UnknownAction
    \/ MissingArgument
    \/ List
    \/ Get
    \/ Add
    \/ Patch
    \/ Delete

Spec == Init /\ [][Next]_vars

(***************************************************************************)
(* ConcSpec: the invocations of Procs against the same file, one system    *)
(* call per step.  Nothing locks the file.                                 *)
(***************************************************************************)
Id0 == generate_id([i \in 1..IdLen |-> 0])

ConcArgs ==
    {<<PROG, PATH, ADD, c>> : c \in Contents}
        \cup {<<PROG, PATH, DELETE, Id0>>, <<PROG, PATH, PATCH, Id0, <<"b", QUOTE>>>>,
              <<PROG, PATH, LIST>>}

ConcFiles ==
    {[exists |-> FALSE, bytes |-> <<>>],
     [exists |-> TRUE, bytes |-> <<>>],
     [exists |-> TRUE, bytes |-> to_string(<<Note(<<"a">>, Id0)>>)]}

ConcInit ==
    /\ \E f \in ConcFiles : exists = f.exists /\ bytes = f.bytes
    /\ args = <<>>
    /\ stdout = <<>>
    /\ result = ""
    /\ writes = 0
    /\ pc = [p \in Procs |-> "start"]
    /\ pos = NoPos
    /\ pargs \in [Procs -> ConcArgs]
    /\ notes = NoSeq
    /\ seen = NoSeq
    /\ pout = NoSeq
    /\ pres = NoRes

\* the invocation ends: Ok(()) or the error returned from main
Exit(p, res, out) ==
    /\ pc' = [pc EXCEPT ![p] = "done"]
    /\ pres' = [pres EXCEPT ![p] = res]
    /\ pout' = [pout EXCEPT ![p] = out]

Goto(p, label) ==
    /\ pc' = [pc EXCEPT ![p] = label]
    /\ UNCHANGED <<pres, pout>>

\* args.get(1) and OpenOptions::open
Open(p) ==
    /\ pc[p] = "start"
    /\ IF ~HasArg(pargs[p], 1)
       THEN /\ Exit(p, "file path must be provided", <<>>)
            /\ UNCHANGED <<exists, bytes>>
       ELSE /\ exists' = TRUE
            /\ bytes' = open_bytes(exists, bytes)
            /\ Goto(p, "stat")
    /\ UNCHANGED <<pos, pargs, notes, seen, seqvars>>

\* file.metadata(): is the length zero?
Stat(p) ==
    /\ pc[p] = "stat"
    /\ Goto(p, IF Len(bytes) <= 0 THEN "init" ELSE "parse")
    /\ UNCHANGED <<fsvars, pos, pargs, notes, seen, seqvars>>

\* file.write_all(b"[]")
InitWrite(p) ==
    /\ pc[p] = "init"
    /\ bytes' = write_all(bytes, pos[p], EmptyArray)
    /\ pos' = [pos EXCEPT ![p] = pos[p] + Len(EmptyArray)]
    /\ Goto(p, "initseek")
    /\ UNCHANGED <<exists, pargs, notes, seen, seqvars>>

\* file.seek(SeekFrom::Start(0)) after the initialisation
InitSeek(p) ==
    /\ pc[p] = "initseek"
    /\ pos' = [pos EXCEPT ![p] = seek(pos[p], 0)]
    /\ Goto(p, "parse")
    /\ UNCHANGED <<fsvars, pargs, notes, seen, seqvars>>

\* the match on args.get(2)
ParseAction(p) ==
    /\ pc[p] = "parse"
    /\ IF parse_action(pargs[p]).err # ""
       THEN Exit(p, parse_action(pargs[p]).err, <<>>)
       ELSE Goto(p, "read")
    /\ UNCHANGED <<fsvars, pos, pargs, notes, seen, seqvars>>

\* after read_notes succeeded: the arm up to its write_notes
Armed(p, act, r) ==
    /\ notes' = [notes EXCEPT ![p] = r.notes]
    /\ IF r.err # "" THEN Exit(p, r.err, r.out)
       ELSE IF ~r.write THEN Exit(p, "ok", r.out)
       ELSE /\ pc' = [pc EXCEPT ![p] = "seek"]
            /\ pout' = [pout EXCEPT ![p] = IF act.kind = "Add" THEN <<>> ELSE r.out]
            /\ UNCHANGED pres

HasRead(p, act, rd, rnd) ==
    /\ act.kind = "Add" => Room(rd)
    /\ IF ~rd.ok
       THEN /\ Exit(p, "json error", <<>>)
            /\ UNCHANGED <<notes, seen>>
       ELSE /\ seen' = [seen EXCEPT ![p] = rd.val]
            /\ Armed(p, act, arm(act, rd.val, rnd))

\* read_notes and the arm of the match up to write_notes
Read(p) ==
    /\ pc[p] = "read"
    /\ \E rnd \in RandomBytes :
            HasRead(p, parse_action(pargs[p]), read_notes(bytes, pos[p]), rnd)
    /\ pos' = [pos EXCEPT ![p] = IF pos[p] > Len(bytes) THEN pos[p] ELSE Len(bytes)]
    /\ UNCHANGED <<fsvars, pargs, seqvars>>

\* write_notes: file.seek(SeekFrom::Start(0))
WriteSeek(p) ==
    /\ pc[p] = "seek"
    /\ pos' = [pos EXCEPT ![p] = seek(pos[p], 0)]
    /\ Goto(p, "trunc")
    /\ UNCHANGED <<fsvars, pargs, notes, seen, seqvars>>

\* write_notes: file.set_len(0)
Truncate(p) ==
    /\ pc[p] = "trunc"
    /\ bytes' = set_len(bytes, 0)
    /\ Goto(p, "write")
    /\ UNCHANGED <<exists, pos, pargs, notes, seen, seqvars>>

\* what add prints after write_notes
Printed(act, ns, out) ==
    IF act.kind = "Add" THEN <<format_note(ns[Len(ns)])>> ELSE out

\* write_notes: file.write_all(..), then the rest of the arm
Write(p) ==
    /\ pc[p] = "write"
    /\ bytes' = write_all(bytes, pos[p], to_string(notes[p]))
    /\ pos' = [pos EXCEPT ![p] = pos[p] + Len(to_string(notes[p]))]
    /\ Exit(p, "ok", Printed(parse_action(pargs[p]), notes[p], pout[p]))
    /\ UNCHANGED <<exists, pargs, notes, seen, seqvars>>

ConcNext ==
    \E p \in Procs :
        \/ Open(p)
        \/ Stat(p)
        \/ InitWrite(p)
        \/ InitSeek(p)
        \/ ParseAction(p)
        \/ Read(p)
        \/ WriteSeek(p)
        \/ Truncate(p)
        \/ Write(p)

ConcSpec == ConcInit /\ [][ConcNext]_vars

(***************************************************************************)
(* Vocabulary of the properties                                            *)
(***************************************************************************)
\* the shape of an argument list
IsList(a) == Len(a) = 3 /\ a[3] = LIST
IsGet(a) == Len(a) = 4 /\ a[3] = GET
IsAdd(a) == Len(a) = 4 /\ a[3] = ADD
IsPatch(a) == Len(a) = 5 /\ a[3] = PATCH
IsDelete(a) == Len(a) = 4 /\ a[3] = DELETE

\* the file holds a collection
Holds == exists /\ from_slice(bytes).ok

\* the collection the file holds, none when it is absent or empty
Held == IF Holds THEN from_slice(bytes).val ELSE <<>>
HeldAfter == from_slice(bytes').val

Matches(ns, id) == {i \in 1..Len(ns) : ns[i].id = id}

Least(S) == CHOOSE i \in S : \A j \in S : i <= j

Without(ns, id) ==
    LET Other(n) == n.id # id IN SelectSeq(ns, Other)

Lines(ns) == [i \in 1..Len(ns) |-> ns[i].id \o <<" ", "-", ">", " ">> \o ns[i].content]

FileSame == exists' = exists /\ bytes' = bytes

UsageErrors ==
    {"file path must be provided", "action must be provided", "unknown action",
     "id must be provided", "content must be provided"}

(***************************************************************************)
(* C1: patch and delete of an id that matches no note in the stored        *)
(* collection end with "note not found", do not call write_notes and leave *)
(* the file byte for byte as it was.                                       *)
(***************************************************************************)
C1_NotFoundLeavesFile ==
    [][(/\ Holds
        /\ IsPatch(args') \/ IsDelete(args')
        /\ Matches(Held, args'[4]) = {})
       => (/\ result' = "note not found"
           /\ writes' = 0
           /\ FileSame)]_vars

C1_Witness ==
    /\ IsPatch(args)
    /\ result = "note not found"
    /\ writes = 0
    /\ bytes = HandWritten

(***************************************************************************)
(* C2: an invocation that fails with a usage error leaves the file's       *)
(* existence and content as they were, whatever the prior state of the     *)
(* path.                                                                   *)
(***************************************************************************)
C2_UsageErrorLeavesFile ==
    [][result' \in UsageErrors => FileSame]_vars

(***************************************************************************)
(* C3: a successful add of c that prints the line X -> c, followed by      *)
(* get X, prints that same line, for every id the generator can return.    *)
(***************************************************************************)
C3_AddThenGet ==
    [][(/\ IsAdd(args)
        /\ result = "ok"
        /\ IsGet(args')
        /\ stdout = <<args'[4] \o <<" ", "-", ">", " ">> \o args[4]>>)
       => (result' = "ok" /\ stdout' = stdout)]_vars

(***************************************************************************)
(* C4: delete X on a collection with a note of id X succeeds and stores    *)
(* exactly the notes of other ids in their order; the length goes down by  *)
(* one when X occurred once; a get X that follows fails with "note not     *)
(* found".                                                                 *)
(***************************************************************************)
C4_DeleteStep ==
    (Holds /\ IsDelete(args') /\ Matches(Held, args'[4]) # {})
        => (/\ result' = "ok"
            /\ exists'
            /\ bytes' = to_string(Without(Held, args'[4]))
            /\ from_slice(bytes').ok
            /\ HeldAfter = Without(Held, args'[4])
            /\ Cardinality(Matches(Held, args'[4])) = 1
                    => Len(HeldAfter) = Len(Held) - 1)

C4_GetAfterDelete ==
    (IsDelete(args) /\ result = "ok" /\ IsGet(args') /\ args'[4] = args[4])
        => (result' = "note not found" /\ stdout' = <<>>)

\* C4: every step satisfies both parts: what delete X stores, and that the
\* get X after it fails
C4_Delete == [][C4_DeleteStep /\ C4_GetAfterDelete]_vars

C4_Witness ==
    /\ IsDelete(args)
    /\ result = "ok"
    /\ writes = 1
    /\ Holds
    /\ Len(Held) = 1
    /\ Held[1].id # args[4]

(***************************************************************************)
(* C5: patch X b on a collection with a note of id X replaces the content  *)
(* of the first such note and stores a collection that is otherwise the    *)
(* same, later notes of id X included; a get X that follows prints X -> b. *)
(***************************************************************************)
C5_PatchStep ==
    (Holds /\ IsPatch(args') /\ Matches(Held, args'[4]) # {})
        => (/\ result' = "ok"
            /\ exists'
            /\ from_slice(bytes').ok
            /\ Len(HeldAfter) = Len(Held)
            /\ \A i \in 1..Len(Held) :
                    /\ HeldAfter[i].id = Held[i].id
                    /\ HeldAfter[i].content =
                            IF i = Least(Matches(Held, args'[4]))
                            THEN args'[5] ELSE Held[i].content
            /\ stdout' = <<args'[4] \o <<" ", "-", ">", " ">> \o args'[5]>>)

C5_GetAfterPatch ==
    (IsPatch(args) /\ result = "ok" /\ IsGet(args') /\ args'[4] = args[4])
        => (/\ result' = "ok"
            /\ stdout' = <<args[4] \o <<" ", "-", ">", " ">> \o args[5]>>)

\* C5: every step satisfies both parts: what patch X b stores and prints,
\* and that the get X after it prints X -> b
C5_Patch == [][C5_PatchStep /\ C5_GetAfterPatch]_vars

\* a patched note followed by an untouched note of the same id
C5_Witness ==
    /\ IsPatch(args)
    /\ result = "ok"
    /\ Holds
    /\ Cardinality(Matches(Held, args[4])) >= 2
    /\ \E i \in Matches(Held, args[4]) :
            /\ i # Least(Matches(Held, args[4]))
            /\ Held[i].content # args[5]

(***************************************************************************)
(* C6: a successful add of c stores the collection that was there followed *)
(* by one new note of content c: one note longer, every earlier note       *)
(* unchanged in place.                                                     *)
(***************************************************************************)
C6_AddAppends ==
    [][(IsAdd(args') /\ result' = "ok")
       => (/\ exists'
           /\ from_slice(bytes').ok
           /\ Len(HeldAfter) = Len(Held) + 1
           /\ SubSeq(HeldAfter, 1, Len(Held)) = Held
           /\ HeldAfter[Len(HeldAfter)].content = args'[4]
           /\ stdout' = Lines(<<HeldAfter[Len(HeldAfter)]>>))]_vars

C6_Witness ==
    /\ IsAdd(args)
    /\ result = "ok"
    /\ Holds
    /\ Len(Held) = 3
    /\ Held[3].content = args[4]
    /\ Held[1] # Held[3]

(***************************************************************************)
(* C7: list and get on a file that holds a collection never write: the     *)
(* file is unchanged whether they succeed or fail, and list prints the     *)
(* notes in stored order, or "No notes found", so that a second list       *)
(* prints what the first did.                                              *)
(***************************************************************************)
C7_ReadOnly ==
    [][(Holds /\ (IsList(args') \/ IsGet(args')))
       => (/\ FileSame
           /\ writes' = 0
           /\ IsList(args') =>
                /\ result' = "ok"
                /\ stdout' = IF Held = <<>> THEN <<NoNotesFound>> ELSE Lines(Held)
           /\ (IsGet(args') /\ Matches(Held, args'[4]) = {}) =>
                result' = "note not found")]_vars

C7_Witness ==
    /\ IsList(args)
    /\ result = "ok"
    /\ Len(stdout) = 2
    /\ stdout = Lines(Held)

(***************************************************************************)
(* C8: an action run against an absent or zero-length file sees the empty  *)
(* collection: list prints "No notes found", get, patch and delete fail    *)
(* with "note not found", add leaves a file of exactly one note.           *)
(***************************************************************************)
C8_Bootstrap ==
    [][(~exists \/ bytes = <<>>)
       => (/\ IsList(args') =>
                (result' = "ok" /\ stdout' = <<NoNotesFound>> /\ bytes' = EmptyArray)
           /\ (IsGet(args') \/ IsPatch(args') \/ IsDelete(args')) =>
                (result' = "note not found" /\ bytes' = EmptyArray)
           /\ IsAdd(args') =>
                /\ result' = "ok"
                /\ from_slice(bytes').ok
                /\ Len(HeldAfter) = 1
                /\ HeldAfter[1].content = args'[4]
           /\ Len(args') >= 2 => exists')]_vars

C8_Witness ==
    /\ IsList(args)
    /\ result = "ok"
    /\ stdout = <<NoNotesFound>>
    /\ bytes = EmptyArray

(***************************************************************************)
(* C9: two concurrent adds that read the same collection and both exit     *)
(* successfully never leave both new notes in the file: when the file      *)
(* parses it is the collection read followed by the note of one of them.   *)
(* The witness is the lost update itself.                                  *)
(***************************************************************************)
BothAdded(p, q) ==
    /\ p # q
    /\ IsAdd(pargs[p]) /\ IsAdd(pargs[q])
    /\ pc[p] = "done" /\ pc[q] = "done"
    /\ pres[p] = "ok" /\ pres[q] = "ok"
    /\ seen[p] = seen[q]

C9_OneChangeOnly ==
    \A p, q \in Procs :
        (BothAdded(p, q) /\ Holds)
            => (/\ Len(Held) = Len(seen[p]) + 1
                /\ SubSeq(Held, 1, Len(seen[p])) = seen[p]
                /\ Held[Len(Held)].content \in {pargs[p][4], pargs[q][4]})

C9_LostUpdate ==
    \E p, q \in Procs :
        /\ BothAdded(p, q)
        /\ pargs[p][4] # pargs[q][4]
        /\ Holds
        /\ Held = Append(seen[p], Note(pargs[p][4], Held[Len(Held)].id))
        /\ \A i \in 1..Len(Held) : Held[i].content # pargs[q][4]

AllDone == \A p \in Procs : pc[p] = "done"

AllOk == \A p \in Procs : pres[p] = "ok"

(***************************************************************************)
(* C10: once all concurrent invocations have finished without crashing,    *)
(* the file is a well-formed note collection that read_notes can parse.    *)
(* Stated for the runs in which every invocation exits successfully, so    *)
(* that no reading of "without crashing" excludes the run found.           *)
(***************************************************************************)
C10_AlwaysParseable == (AllDone /\ AllOk) => Holds

(***************************************************************************)
(* C10, amended: once all concurrent invocations have finished, the file   *)
(* starts with a well-formed serialised collection; bytes of a longer      *)
(* earlier write may follow it.                                            *)
(***************************************************************************)
C10_WellFormedPrefix ==
    AllDone => (exists /\ \E n \in 0..Len(bytes) : from_slice(SubSeq(bytes, 1, n)).ok)

\* both exited successfully and the file no longer parses
C10_Witness ==
    /\ AllDone
    /\ AllOk
    /\ exists
    /\ ~from_slice(bytes).ok
    /\ \E n \in 1..(Len(bytes) - 1) : from_slice(SubSeq(bytes, 1, n)).ok

====
